---------------------------- MODULE Spec2Model ----------------------------
(***************************************************************************)
(* Model of the origin-fetch caching layer of the BTCFi API (github.ts):   *)
(* the LRU cache store, fetchResource and the two dataset accessors that   *)
(* call it, and invalidateCache.                                           *)
(*                                                                         *)
(* fetchResource is an async function.  It runs without interruption from  *)
(* its entry to `await request(...)`, and again from the arrival of the    *)
(* response to its return, so a call is two steps: FetchStart (cache       *)
(* lookup, fresh-hit return or request) and Respond / TransportFail (the   *)
(* continuation).  Clock ticks and invalidateCache fall between the two;   *)
(* the calls of one caller follow one another.                             *)
(*                                                                         *)
(* The store is an lru-cache LRUCache built with {max, ttlAutopurge:false};*)
(* its operations are modelled as that library performs them:              *)
(*   get(k, {allowStale:true}) on an entry whose age exceeds its ttl       *)
(*       returns the value AND deletes the entry (noDeleteOnStaleGet is    *)
(*       not set); on any other present entry it marks it most recent;     *)
(*   getRemainingTTL(k) is 0 for an absent key, ttl - age otherwise;       *)
(*   set(k, v, {ttl}) replaces or inserts as most recent, restarts the     *)
(*       entry's clock, and evicts the least recent entry when a new key   *)
(*       arrives at a full store.                                          *)
(***************************************************************************)
EXTENDS Integers, Sequences, FiniteSets, TLC

\* ---------------------------------------------------------- configuration
\* MANIFEST_TTL_SECONDS and DATA_TTL_SECONDS as configured for the run.
manifestTtlSeconds == 1
dataTtlSeconds == 2

\* One clock tick, in the milliseconds lru-cache counts in.
TickMs == 1000

\* Values CACHE_MAX_ENTRIES may have in the environment, and the one it has
\* in the runs that fill the store.
EnvMaxEntries == {"unset", "abc", "0", "-1", "Infinity", "2"}
EnvSmall == {"2"}

\* ------------------------------------------------------------------ values
Undefined == "undefined"

\* `cached` when the store has no entry for the key.
NoEntry == [absent |-> TRUE]

\* statusCode of a CacheEntry that records none.
NoStatus == 0

Dates == {"2025-09-30"}

\* The dates the lending manifest served to the HTTP layer lists.
ManifestDates == <<"2025-09-28", "2025-09-30">>

\* Date strings a caller may pass to getDailyDataset, which takes any
\* string: a date, the empty string, and strings made of the characters the
\* key and the path are put together with.
KeyDates == {"2025-09-30", "", "../../meta/lending_manifest"}

\* The accessor calls a caller can make.
Requests ==
    [op : {"getManifest"}, dataset : {"lending", "borrowing"}, date : {Undefined}]
      \cup [op : {"getDailyDataset"}, dataset : {"lending"}, date : Dates]

\* Every accessor call of the model: those above, and the day files the HTTP
\* handlers ask for.
AllRequests ==
    Requests \cup [op : {"getDailyDataset"}, dataset : {"lending"},
                   date : {ManifestDates[i] : i \in 1..Len(ManifestDates)}]
             \cup [op : {"getDailyDataset"}, dataset : {"lending", "borrowing"},
                   date : KeyDates]

\* Callers of the accessors; a caller has at most one call in flight.  With
\* one caller the calls run one after the other.
Calls == {"c1"}

\* Origin responses: status, headers as undici reports them (a header is
\* absent, a string, or an array of strings), body text.  The origin holds
\* two versions of a file: one served with validators, one without.
Statuses == {200, 302, 304, 404, 502}
HdrAbsent == [kind |-> "undefined"]
HdrString(s) == [kind |-> "string", v |-> s]
HdrArray(a) == [kind |-> "array", v |-> a]
Versions ==
    { [headers |-> [etag |-> HdrString("etag-1"), lastModified |-> HdrString("lm-1"),
                    contentType |-> HdrArray(<<"application/json", "text/plain">>)],
       body |-> "[]"],
      [headers |-> [etag |-> HdrAbsent, lastModified |-> HdrAbsent,
                    contentType |-> HdrAbsent],
       body |-> "[{}]"] }
Responses ==
    { [statusCode |-> s, headers |-> v.headers, body |-> v.body] :
        s \in Statuses, v \in Versions }

VARIABLES
    env,      \* process.env.CACHE_MAX_ENTRIES
    max,      \* the LRUCache's max option
    cache,    \* the LRUCache: sequence of slots, least recently used first;
              \* a slot's age is the clock reading minus its start
    calls,    \* per caller: the fetchResource call in flight, if any
    result,   \* outcome of the fetchResource call that returned in the last
              \* step, NoResult after any other step
    hist,     \* history, per request: the last write of its entry
    touched,  \* history: the keys in the store, least recently accessed first
    http      \* the HTTP request being handled, if any, and its reply

vars == <<env, max, cache, calls, result, hist, touched, http>>

\* --------------------------------------------------------------- lru-cache
\* Number(process.env.CACHE_MAX_ENTRIES ?? '500') followed by the guard of
\* the constructor call: finite and > 0, else 500.
DefaultMaxEntries == 500
NumberOfEnv(e) ==
    CASE e = "unset" -> [kind |-> "finite", n |-> DefaultMaxEntries]
      [] e = "abc" -> [kind |-> "NaN", n |-> 0]
      [] e = "Infinity" -> [kind |-> "Infinity", n |-> 0]
      [] e = "0" -> [kind |-> "finite", n |-> 0]
      [] e = "-1" -> [kind |-> "finite", n |-> -1]
      [] e = "2" -> [kind |-> "finite", n |-> 2]
CacheMax(e) ==
    LET maxEntries == NumberOfEnv(e)
    IN  IF maxEntries.kind = "finite" /\ maxEntries.n > 0
        THEN maxEntries.n ELSE DefaultMaxEntries

Keys(c) == {c[i].key : i \in 1..Len(c)}
IndexOf(c, k) == CHOOSE i \in 1..Len(c) : c[i].key = k
Without(c, k) == SelectSeq(c, LAMBDA s : s.key # k)

\* lru-cache #isStale: the entry has a ttl and its age exceeds it.
isStale(slot) == slot.ttl # 0 /\ slot.age > slot.ttl

\* cache.get(k, {allowStale: true}): [value, cache after the call].
LruGetAllowStale(c, k) ==
    IF k \notin Keys(c) THEN [value |-> NoEntry, cache |-> c]
    ELSE LET slot == c[IndexOf(c, k)]
         IN  IF isStale(slot)
             THEN [value |-> slot.value, cache |-> Without(c, k)]
             ELSE [value |-> slot.value, cache |-> Append(Without(c, k), slot)]

\* A sign slip in the remaining time.
getRemainingTTL_AgeMinusTtl(c, k) ==
    IF k \notin Keys(c) THEN 0
    ELSE LET slot == c[IndexOf(c, k)] IN slot.age - slot.ttl

\* cache.getRemainingTTL(k).  Every set of this program passes a ttl > 0, so
\* the "no ttl: Infinity" case of the library does not arise.
getRemainingTTL(c, k) ==
    IF k \notin Keys(c) THEN 0
    ELSE LET slot == c[IndexOf(c, k)] IN slot.ttl - slot.age

\* A full store that drops its most recent entry instead of the least recent.
LruSet_EvictNewest(c, k, v, ttl, m) ==
    LET slot == [key |-> k, value |-> v, age |-> 0, ttl |-> ttl]
    IN  IF k \in Keys(c) THEN Append(Without(c, k), slot)
        ELSE IF Len(c) >= m THEN Append(SubSeq(c, 1, Len(c) - 1), slot)
        ELSE Append(c, slot)


\* A write that restarts the clock of every entry in the store.
LruSet_RefreshAll(c, k, v, ttl, m) ==
    LET slot == [key |-> k, value |-> v, age |-> 0, ttl |-> ttl]
        kept == IF k \in Keys(c) THEN Without(c, k)
                ELSE IF Len(c) >= m THEN Tail(c)
                ELSE c
    IN  Append([i \in 1..Len(kept) |-> [kept[i] EXCEPT !.age = 0]], slot)

\* cache.set(k, v, {ttl}).
LruSet(c, k, v, ttl, m) ==
    LET slot == [key |-> k, value |-> v, age |-> 0, ttl |-> ttl]
    IN  IF k \in Keys(c) THEN Append(Without(c, k), slot)
        ELSE IF Len(c) >= m THEN Append(Tail(c), slot)
        ELSE Append(c, slot)

\* cache.clear().
LruClear == <<>>

\* The clock advances by d.  Ages beyond the ttl are all alike to isStale
\* and are never read by getRemainingTTL (the stale get removed the entry),
\* so an age stops growing once it has passed the ttl.
Older(age, ttl, d) == IF age > ttl THEN age ELSE age + d
LruElapse(c, d) == [i \in 1..Len(c) |-> [c[i] EXCEPT !.age = Older(c[i].age, c[i].ttl, d)]]

\* ------------------------------------------------------------ fetchResource
cacheKey(source, path) == source \o ":" \o path

firstHeader(value) ==
    IF value.kind = "array" THEN value.v[1]
    ELSE IF value.kind = "string" THEN value.v
    ELSE Undefined

\* The FetchOptions the accessors pass.
ManifestPath(dataset) == "meta/" \o dataset \o "_manifest.json"
DailyPath(dataset, date) == "data/" \o dataset \o "/" \o date \o ".json"
\* The daily-data TTL passed by both accessors.
FetchOptions_OneTtl(req) ==
    IF req.op = "getManifest"
    THEN [ttlSeconds |-> dataTtlSeconds,
          source |-> "manifest:" \o req.dataset,
          path |-> ManifestPath(req.dataset)]
    ELSE [ttlSeconds |-> dataTtlSeconds,
          source |-> req.dataset \o ":" \o req.date,
          path |-> DailyPath(req.dataset, req.date)]


\* The date left out of a day file's source tag and path.
FetchOptions_NoDate(req) ==
    IF req.op = "getManifest"
    THEN [ttlSeconds |-> manifestTtlSeconds,
          source |-> "manifest:" \o req.dataset,
          path |-> ManifestPath(req.dataset)]
    ELSE [ttlSeconds |-> dataTtlSeconds,
          source |-> req.dataset,
          path |-> "data/" \o req.dataset \o ".json"]

FetchOptions(req) ==
    IF req.op = "getManifest"
    THEN [ttlSeconds |-> manifestTtlSeconds,
          source |-> "manifest:" \o req.dataset,
          path |-> ManifestPath(req.dataset)]
    ELSE [ttlSeconds |-> dataTtlSeconds,
          source |-> req.dataset \o ":" \o req.date,
          path |-> DailyPath(req.dataset, req.date)]

KeyOf(req) == cacheKey(FetchOptions(req).source, FetchOptions(req).path)
TtlMs(req) == FetchOptions(req).ttlSeconds * 1000

Idle == [pc |-> "idle"]

NoResult == [kind |-> "none"]

\* After invalidateCache(): no fetch result, and the number of entries the
\* call removed.
Cleared(n) == [kind |-> "none", cleared |-> n]

\* No HTTP request has arrived yet.
HttpIdle == [pc |-> "idle"]

NoHist == [none |-> TRUE]

\* A FetchResult, with the call's bookkeeping: who asked, for what, what the
\* lookup found (`cached`, and `prior`: the history of the request at that
\* moment), how many origin requests the call issued and the status received
\* (NoStatus when no response came).
Returned(c, req, entry, metrics, cached, prior, requests, upstream) ==
    [kind |-> "ok", call |-> c, req |-> req,
     buffer |-> entry.body, etag |-> entry.etag,
     lastModified |-> entry.lastModified, contentType |-> entry.contentType,
     metrics |-> metrics, statusCode |-> NoStatus,
     cached |-> cached, prior |-> prior, requests |-> requests,
     upstream |-> upstream]

\* A rejected call: `name` is the error's name, statusCode its statusCode.
Thrown(c, req, name, statusCode, cached, prior, requests, upstream) ==
    [kind |-> name, call |-> c, req |-> req,
     buffer |-> Undefined, etag |-> Undefined,
     lastModified |-> Undefined, contentType |-> Undefined,
     metrics |-> [none |-> TRUE], statusCode |-> statusCode,
     cached |-> cached, prior |-> prior, requests |-> requests,
     upstream |-> upstream]


\* A stale serve reported as a miss.
Metrics_StaleIsMiss(cacheHit, upstreamStatus, servedStale, source) ==
    [cacheHit |-> cacheHit /\ ~servedStale, upstreamStatus |-> upstreamStatus,
     servedStale |-> servedStale, source |-> source]

Metrics(cacheHit, upstreamStatus, servedStale, source) ==
    [cacheHit |-> cacheHit, upstreamStatus |-> upstreamStatus,
     servedStale |-> servedStale, source |-> source]

\* x ?? d
Nullish(x, d) == IF x = NoStatus THEN d ELSE x


\* Only an entry that has a validator counts as fresh.
IsFresh_ValidatedOnly(cached, remainingTtl) ==
    cached # NoEntry /\ remainingTtl > 0 /\ cached.etag # Undefined

\* Line 96.
IsFresh(cached, remainingTtl) == cached # NoEntry /\ remainingTtl > 0

\* Lines 98-111: the return on a fresh hit.
FreshReturn(c, req, cached, prior) ==
    Returned(c, req, cached,
             Metrics(TRUE, Nullish(cached.statusCode, 200), FALSE,
                     FetchOptions(req).source),
             cached, prior, 0, NoStatus)

\* The Last-Modified value sent as the validator.
IfNoneMatch_LastModified(cached) ==
    IF cached # NoEntry /\ cached.lastModified # Undefined
    THEN cached.lastModified ELSE Undefined

\* Lines 113-116: the If-None-Match header, Undefined when not sent.  The
\* test `cached?.etag` also fails for an empty string.
IfNoneMatch(cached) ==
    IF cached # NoEntry /\ cached.etag # Undefined /\ cached.etag # ""
    THEN cached.etag ELSE Undefined

\* Lines 132-136: the entry written back on a 304.
Revalidated(cached, statusCode) == [cached EXCEPT !.statusCode = statusCode]

\* Lines 138-149: the return on a 304.
RevalidatedReturn(c, req, cached, prior, statusCode) ==
    Returned(c, req, cached,
             Metrics(TRUE, statusCode, FALSE, FetchOptions(req).source),
             cached, prior, 1, statusCode)

\* Lines 154-165 and 172-183: a stale entry served on an error status.
StaleReturn(c, req, cached, prior, statusCode) ==
    Returned(c, req, cached,
             Metrics(TRUE, statusCode, TRUE, FetchOptions(req).source),
             cached, prior, 1, statusCode)

\* A 404 that is surfaced even though a cached entry exists.
NotFoundOutcome_AlwaysThrow(c, req, cached, prior, statusCode) ==
    Thrown(c, req, "UpstreamNotFoundError", NoStatus, cached, prior, 1, statusCode)

\* Lines 152-168: status 404.
NotFoundOutcome(c, req, cached, prior, statusCode) ==
    IF cached # NoEntry THEN StaleReturn(c, req, cached, prior, statusCode)
    ELSE Thrown(c, req, "UpstreamNotFoundError", NoStatus,
                cached, prior, 1, statusCode)

\* The error built with a fixed status instead of the one received.
ErrorStatusOutcome_Fixed500(c, req, cached, prior, statusCode) ==
    IF cached # NoEntry THEN StaleReturn(c, req, cached, prior, statusCode)
    ELSE Thrown(c, req, "UpstreamUnavailableError", 500,
                cached, prior, 1, statusCode)

\* Lines 170-186: any other status >= 400.
ErrorStatusOutcome(c, req, cached, prior, statusCode) ==
    IF cached # NoEntry THEN StaleReturn(c, req, cached, prior, statusCode)
    ELSE Thrown(c, req, "UpstreamUnavailableError", statusCode,
                cached, prior, 1, statusCode)

\* The Last-Modified header looked up under a name undici does not use.
NewEntry_NoLastModified(response) ==
    [body |-> response.body,
     etag |-> firstHeader(response.headers.etag),
     lastModified |-> Undefined,
     contentType |-> firstHeader(response.headers.contentType),
     statusCode |-> response.statusCode]

\* Lines 188-196: the entry built from the response.
NewEntry(response) ==
    [body |-> response.body,
     etag |-> firstHeader(response.headers.etag),
     lastModified |-> firstHeader(response.headers.lastModified),
     contentType |-> firstHeader(response.headers.contentType),
     statusCode |-> response.statusCode]

\* Lines 199-210: the return after storing the response.
StoredReturn(c, req, newEntry, cached, prior, statusCode) ==
    Returned(c, req, newEntry,
             Metrics(FALSE, statusCode, FALSE, FetchOptions(req).source),
             cached, prior, 1, statusCode)

\* The 304 case left out: a 304 is stored like a success.
Branch_No304(statusCode, cached) ==
    IF statusCode = 404 THEN "notFound"
    ELSE IF statusCode >= 400 THEN "error"
    ELSE "store"

\* The 404 case left out: a 404 is handled like any other error status.
Branch_No404(statusCode, cached) ==
    IF statusCode = 304 /\ cached # NoEntry THEN "revalidate"
    ELSE IF statusCode >= 400 THEN "error"
    ELSE "store"

\* Which branch of lines 131-197 a status takes.
Branch(statusCode, cached) ==
    IF statusCode = 304 /\ cached # NoEntry THEN "revalidate"
    ELSE IF statusCode = 404 THEN "notFound"
    ELSE IF statusCode >= 400 THEN "error"
    ELSE "store"

\* History.  hist[req] describes the last write of req's entry since the
\* last invalidateCache.  Within the TTL after the write it is the buffer and
\* status the writing call returned, how it wrote (a 304 revalidation or the
\* storing of a response), the time since then, and whether that
\* entry is still in the store as written (`intact`) or was evicted for
\* capacity.  Once the TTL has elapsed it is Expired if no eviction took the
\* entry, NoHist otherwise.  touched lists the keys by their last access (a
\* lookup that found the entry within its ttl, or a write).
Expired == [expired |-> TRUE]
Evicted(h) ==
    IF h = NoHist \/ h = Expired THEN NoHist ELSE [h EXCEPT !.intact = FALSE]
HistAfterSet(h, before, after, req, buffer, statusCode, how) ==
    [r \in AllRequests |->
        IF r = req
        THEN [buffer |-> buffer, statusCode |-> statusCode, how |-> how,
              age |-> 0, intact |-> TRUE]
        ELSE IF KeyOf(r) \in Keys(before) \ Keys(after) THEN Evicted(h[r])
        ELSE h[r]]
HistElapse(h, d) ==
    [r \in AllRequests |->
        IF h[r] = NoHist \/ h[r] = Expired THEN h[r]
        ELSE IF h[r].age + d >= TtlMs(r)
             THEN IF h[r].intact THEN Expired ELSE NoHist
             ELSE [h[r] EXCEPT !.age = @ + d]]
Touch(t, k) == Append(SelectSeq(t, LAMBDA x : x # k), k)
TouchedAfter(t, after) == SelectSeq(t, LAMBDA x : x \in Keys(after))

\* Lines 93-127: lookup, then either the fresh-hit return or the request.
FetchStart(c, req) ==
    /\ calls[c].pc = "idle"
    /\ LET opts == FetchOptions(req)
           key == cacheKey(opts.source, opts.path)
           got == LruGetAllowStale(cache, key)
           cached == got.value
           remainingTtl == getRemainingTTL(got.cache, key)
           isFresh == IsFresh(cached, remainingTtl)
       IN  /\ cache' = got.cache
           /\ touched' = IF key \in Keys(cache')
                         THEN Touch(touched, key)
                         ELSE SelectSeq(touched, LAMBDA x : x # key)
           /\ IF cached # NoEntry /\ isFresh
              THEN /\ result' = FreshReturn(c, req, cached, hist[req])
                   /\ calls' = calls
              ELSE /\ calls' = [calls EXCEPT ![c] =
                          [pc |-> "awaiting", req |-> req, cached |-> cached,
                           prior |-> hist[req], ifNoneMatch |-> IfNoneMatch(cached)]]
                   /\ result' = NoResult
    /\ UNCHANGED <<env, max, hist>>


\* A stale serve that writes the entry back, which restarts its TTL.
Respond_StaleServeRefreshes(c, response) ==
    /\ calls[c].pc = "awaiting"
    /\ LET req == calls[c].req
           opts == FetchOptions(req)
           key == cacheKey(opts.source, opts.path)
           cached == calls[c].cached
           prior == calls[c].prior
           statusCode == response.statusCode
           branch == Branch(statusCode, cached)
           newEntry == NewEntry(response)
       IN  CASE branch = "revalidate" ->
                /\ cache' = LruSet(cache, key, Revalidated(cached, statusCode),
                                   opts.ttlSeconds * 1000, max)
                /\ result' = RevalidatedReturn(c, req, cached, prior, statusCode)
                /\ hist' = HistAfterSet(hist, cache, cache', req, cached.body, statusCode,
                                      branch)
                /\ touched' = Touch(TouchedAfter(touched, cache'), key)
             [] branch \in {"notFound", "error"} ->
                /\ result' = IF branch = "notFound"
                             THEN NotFoundOutcome(c, req, cached, prior, statusCode)
                             ELSE ErrorStatusOutcome(c, req, cached, prior, statusCode)
                /\ IF cached # NoEntry
                   THEN /\ cache' = LruSet(cache, key, cached, opts.ttlSeconds * 1000, max)
                        /\ touched' = Touch(TouchedAfter(touched, cache'), key)
                        /\ hist' = hist
                   ELSE UNCHANGED <<cache, hist, touched>>
             [] branch = "store" ->
                /\ cache' = LruSet(cache, key, newEntry, opts.ttlSeconds * 1000, max)
                /\ result' = StoredReturn(c, req, newEntry, cached, prior, statusCode)
                /\ hist' = HistAfterSet(hist, cache, cache', req, newEntry.body, statusCode,
                                      branch)
                /\ touched' = Touch(TouchedAfter(touched, cache'), key)
    /\ calls' = [calls EXCEPT ![c] = Idle]
    /\ UNCHANGED <<env, max>>

\* Lines 129-211: the continuation once `request` resolved with `response`.
Respond(c, response) ==
    /\ calls[c].pc = "awaiting"
    /\ LET req == calls[c].req
           opts == FetchOptions(req)
           key == cacheKey(opts.source, opts.path)
           cached == calls[c].cached
           prior == calls[c].prior
           statusCode == response.statusCode
           branch == Branch(statusCode, cached)
           newEntry == NewEntry(response)
       IN  CASE branch = "revalidate" ->
                /\ cache' = LruSet(cache, key, Revalidated(cached, statusCode),
                                   opts.ttlSeconds * 1000, max)
                /\ result' = RevalidatedReturn(c, req, cached, prior, statusCode)
                /\ hist' = HistAfterSet(hist, cache, cache', req, cached.body, statusCode,
                                      branch)
                /\ touched' = Touch(TouchedAfter(touched, cache'), key)
             [] branch = "notFound" ->
                /\ result' = NotFoundOutcome(c, req, cached, prior, statusCode)
                /\ UNCHANGED <<cache, hist, touched>>
             [] branch = "error" ->
                /\ result' = ErrorStatusOutcome(c, req, cached, prior, statusCode)
                /\ UNCHANGED <<cache, hist, touched>>
             [] branch = "store" ->
                /\ cache' = LruSet(cache, key, newEntry, opts.ttlSeconds * 1000, max)
                /\ result' = StoredReturn(c, req, newEntry, cached, prior, statusCode)
                /\ hist' = HistAfterSet(hist, cache, cache', req, newEntry.body, statusCode,
                                      branch)
                /\ touched' = Touch(TouchedAfter(touched, cache'), key)
    /\ calls' = [calls EXCEPT ![c] = Idle]
    /\ UNCHANGED <<env, max>>


\* A second attempt after the request failed, which fails too.
TransportFail_RetryOnce(c) ==
    /\ calls[c].pc = "awaiting"
    /\ result' = Thrown(c, calls[c].req, "Error", NoStatus,
                        calls[c].cached, calls[c].prior, 2, NoStatus)
    /\ calls' = [calls EXCEPT ![c] = Idle]
    /\ UNCHANGED <<env, max, cache, hist, touched>>

\* Lines 124-127 and 188: `request` (or reading the body) rejects.  Nothing
\* in fetchResource catches it, so the call rejects with that error.
TransportFail(c) ==
    /\ calls[c].pc = "awaiting"
    /\ result' = Thrown(c, calls[c].req, "Error", NoStatus,
                        calls[c].cached, calls[c].prior, 1, NoStatus)
    /\ calls' = [calls EXCEPT ![c] = Idle]
    /\ UNCHANGED <<env, max, cache, hist, touched>>

\* A purge of the expired entries only, in place of the clear.
invalidateCache_PurgeStale ==
    /\ cache' = SelectSeq(cache, LAMBDA slot : ~isStale(slot))
    /\ hist' = [r \in AllRequests |-> NoHist]
    /\ touched' = <<>>
    /\ result' = Cleared(Len(cache))
    /\ UNCHANGED <<env, max, calls>>

\* invalidateCache().
invalidateCache ==
    /\ cache' = LruClear
    /\ hist' = [r \in AllRequests |-> NoHist]
    /\ touched' = <<>>
    /\ result' = Cleared(Len(cache))
    /\ UNCHANGED <<env, max, calls>>

\* Time passes.
Tick ==
    /\ cache' = LruElapse(cache, TickMs)
    /\ hist' = HistElapse(hist, TickMs)
    /\ result' = NoResult
    /\ UNCHANGED <<env, max, calls, touched>>

InitWith(envs) ==
    /\ env \in envs
    /\ max = CacheMax(env)
    /\ cache = <<>>
    /\ calls = [c \in Calls |-> Idle]
    /\ result = NoResult
    /\ hist = [r \in AllRequests |-> NoHist]
    /\ touched = <<>>
    /\ http = HttpIdle

Init == InitWith(EnvSmall)

Next ==
    \/ \E c \in Calls, req \in Requests : FetchStart(c, req) /\ UNCHANGED http
    \/ \E c \in Calls, response \in Responses : Respond(c, response) /\ UNCHANGED http
    \/ \E c \in Calls : TransportFail(c) /\ UNCHANGED http
    \/ invalidateCache /\ UNCHANGED http
    \/ Tick /\ UNCHANGED http

Spec == Init /\ [][Next]_vars

\* The same program started under any of the CACHE_MAX_ENTRIES settings, with
\* an origin that serves one version of each file or reports it missing.
InitConfig == InitWith(EnvMaxEntries)
OneVersion == {r \in Responses : r.statusCode \in {200, 404} /\ r.body = "[]"}
NextConfig ==
    \/ \E c \in Calls, req \in Requests : FetchStart(c, req) /\ UNCHANGED http
    \/ \E c \in Calls, response \in OneVersion : Respond(c, response) /\ UNCHANGED http
    \/ \E c \in Calls : TransportFail(c) /\ UNCHANGED http
    \/ invalidateCache /\ UNCHANGED http
    \/ Tick /\ UNCHANGED http
SpecConfig == InitConfig /\ [][NextConfig]_vars

\* -------------------------------------------------------- dataset accessors
\* The texts the origin serves in the runs that parse them: the manifests and
\* day files of the route tests, and a body that is not JSON.
LendingManifestText ==
    "{\"latest\":\"2025-09-30\",\"dates\":[\"2025-09-28\",\"2025-09-30\"],\"updated_at\":\"2025-09-30T00:00:00Z\",\"schema_version\":1}"
BorrowingManifestText ==
    "{\"latest\":\"\",\"dates\":[],\"updated_at\":\"2025-09-29T00:00:00Z\",\"schema_version\":1}"
Rows28Text == "[{\"protocol\":\"Vesu\",\"poolId\":\"pool-0\"}]"
Rows30Text ==
    "[{\"protocol\":\"Vesu\",\"poolId\":\"pool-1\"},{\"protocol\":\"Alpha\",\"poolId\":\"pool-2\"}]"
UnparsableText == "bad gateway"

\* JSON values: an array is [type, items], an object [type, fields]; the
\* values inside are plain sequences, records and strings.
JArray(items) == [type |-> "array", items |-> items]
JObject(fields) == [type |-> "object", fields |-> fields]

\* value.name in JavaScript: undefined when the value has no such property.
Field(value, name) ==
    IF value.type = "object" /\ name \in DOMAIN value.fields
    THEN value.fields[name] ELSE Undefined

\* row.name for a row of a day file.
RowField(row, name) == IF name \in DOMAIN row THEN row[name] ELSE Undefined

\* JSON.parse(text): the value, or a SyntaxError.
SyntaxError == [ok |-> FALSE]
Parsed(value) == [ok |-> TRUE, value |-> value]
JSONparse(text) ==
    CASE text = "[]" -> Parsed(JArray(<<>>))
      [] text = "[{}]" -> Parsed(JArray(<< <<>> >>))
      [] text = LendingManifestText ->
            Parsed(JObject([latest |-> "2025-09-30", dates |-> ManifestDates,
                            updated_at |-> "2025-09-30T00:00:00Z",
                            schema_version |-> 1]))
      [] text = BorrowingManifestText ->
            Parsed(JObject([latest |-> "", dates |-> <<>>,
                            updated_at |-> "2025-09-29T00:00:00Z",
                            schema_version |-> 1]))
      [] text = Rows28Text ->
            Parsed(JArray(<< [protocol |-> "Vesu", poolId |-> "pool-0"] >>))
      [] text = Rows30Text ->
            Parsed(JArray(<< [protocol |-> "Vesu", poolId |-> "pool-1"],
                             [protocol |-> "Alpha", poolId |-> "pool-2"] >>))
      [] text = UnparsableText -> SyntaxError

\* What an accessor call comes to: a rejection with the error's name (and
\* statusCode, message), or the object it resolves with.
Rejected(name, statusCode, message) ==
    [kind |-> name, statusCode |-> statusCode, message |-> message]

\* A parse failure swallowed: an empty array stands in for the value.
parseJson_EmptyOnFailure(buffer, path) ==
    LET parsed == JSONparse(buffer)
    IN  IF parsed.ok THEN [kind |-> "ok", value |-> parsed.value]
        ELSE [kind |-> "ok", value |-> JArray(<<>>)]

\* Lines 213-219.
parseJson(buffer, path) ==
    LET parsed == JSONparse(buffer)
    IN  IF parsed.ok THEN [kind |-> "ok", value |-> parsed.value]
        ELSE Rejected("Error", NoStatus, "Failed to parse JSON from " \o path)

\* Lines 230-236: getManifest once fetchResource has come to r.
getManifest(r) ==
    IF r.kind # "ok" THEN Rejected(r.kind, r.statusCode, Undefined)
    ELSE LET parsed == parseJson(r.buffer, FetchOptions(r.req).path)
         IN  IF parsed.kind # "ok" THEN parsed
             ELSE [kind |-> "ok", manifest |-> parsed.value, etag |-> r.etag,
                   updatedAt |-> Field(parsed.value, "updated_at"),
                   metrics |-> r.metrics]

\* Lines 248-254: getDailyDataset once fetchResource has come to r.
getDailyDataset(r) ==
    IF r.kind # "ok" THEN Rejected(r.kind, r.statusCode, Undefined)
    ELSE LET parsed == parseJson(r.buffer, FetchOptions(r.req).path)
         IN  IF parsed.kind # "ok" THEN parsed
             ELSE [kind |-> "ok", data |-> parsed.value, etag |-> r.etag,
                   lastModified |-> r.lastModified, metrics |-> r.metrics]

\* The accessor that made the fetchResource call r belongs to.
Accessor(r) == IF r.req.op = "getManifest" THEN getManifest(r) ELSE getDailyDataset(r)

\* An origin that serves, for any path, an empty array with validators or a
\* page that is not JSON, or answers 304 or 502.
ParseVersions ==
    { [headers |-> [etag |-> HdrString("etag-1"), lastModified |-> HdrString("lm-1"),
                    contentType |-> HdrArray(<<"application/json", "text/plain">>)],
       body |-> "[]"],
      [headers |-> [etag |-> HdrAbsent, lastModified |-> HdrAbsent,
                    contentType |-> HdrAbsent],
       body |-> UnparsableText] }
ParseResponses ==
    { [statusCode |-> s, headers |-> v.headers, body |-> v.body] :
        s \in {200, 304, 502}, v \in ParseVersions }
NextParse ==
    \/ \E c \in Calls, req \in Requests : FetchStart(c, req) /\ UNCHANGED http
    \/ \E c \in Calls, response \in ParseResponses :
          Respond(c, response) /\ UNCHANGED http
    \/ \E c \in Calls : TransportFail(c) /\ UNCHANGED http
    \/ invalidateCache /\ UNCHANGED http
    \/ Tick /\ UNCHANGED http
SpecParse == Init /\ [][NextParse]_vars

\* --------------------------------------------------------------- HTTP layer
\* An HTTP request is a record of its route ("latest", "all", "dates" under
\* /v1/{dataset}, or "health"), method, the Accept and If-None-Match headers
\* and the query parameters, each a string or Undefined when not given.
ManifestRequest(dataset) ==
    [op |-> "getManifest", dataset |-> dataset, date |-> Undefined]
DailyRequest(dataset, date) ==
    [op |-> "getDailyDataset", dataset |-> dataset, date |-> date]

JsonType == "application/json; charset=utf-8"
NdjsonType == "application/x-ndjson; charset=utf-8"

\* A string that is neither undefined nor empty.
Truthy(x) == x # Undefined /\ x # ""

\* a ?? b
Coalesce(a, b) == IF a # Undefined THEN a ELSE b

\* Lines 306-317: the Content-Type and ETag headers of a reply.
applyHeaders(format, etag) ==
    [contentType |-> IF format = "ndjson" THEN NdjsonType ELSE JsonType,
     etag |-> IF Truthy(etag) THEN etag ELSE Undefined]

\* reply.code(statusCode).send(body) with those headers.
Reply(statusCode, headers, body) ==
    [statusCode |-> statusCode, contentType |-> headers.contentType,
     etag |-> headers.etag, body |-> body]

\* send() without a payload.
EmptyBody == [kind |-> "empty"]

\* Lines 319-323.
sendError(statusCode, message) ==
    Reply(statusCode, applyHeaders("json", Undefined),
          [kind |-> "error", error |-> message, code |-> statusCode])

\* z.coerce.number() on the query strings of the model.
NumberOf(s) ==
    CASE s = "0" -> 0
      [] s = "1" -> 1
      [] s = "2" -> 2
      [] s = "3" -> 3
      [] s = "10001" -> 10001

\* Lines 26-27: page is an integer >= 1, per_page one in 1..10000.
ValidPage(in) == in.page = Undefined \/ NumberOf(in.page) >= 1
ValidPerPage(in) ==
    in.per_page = Undefined
       \/ (NumberOf(in.per_page) >= 1 /\ NumberOf(in.per_page) <= 10000)

\* Lines 184-185: query.page ?? 1 and query.per_page ?? 1000.
PageOf(in) == IF in.page = Undefined THEN 1 ELSE NumberOf(in.page)
PerPageOf(in) == IF in.per_page = Undefined THEN 1000 ELSE NumberOf(in.per_page)

\* a < b on the date strings of the model, as JavaScript compares strings.
StringRank(s) ==
    CASE s = "2025-09-28" -> 1
      [] s = "2025-09-30" -> 2
StringLess(a, b) == StringRank(a) < StringRank(b)

\* Lines 291-298.
NoRange == [none |-> TRUE]
resolveRange(in, manifest) ==
    LET dates == Field(manifest, "dates")
        from == IF in.from # Undefined THEN in.from
                ELSE IF Len(dates) > 0 THEN dates[1] ELSE Undefined
        to == IF in.to # Undefined THEN in.to
              ELSE IF Len(dates) > 0 THEN dates[Len(dates)] ELSE Undefined
    IN  IF Truthy(from) /\ Truthy(to) /\ StringLess(to, from)
        THEN NoRange
        ELSE [from |-> from, to |-> to]

\* Lines 300-304.
inRange(date, from, to) ==
    /\ ~(Truthy(from) /\ StringLess(date, from))
    /\ ~(Truthy(to) /\ StringLess(to, date))

\* Lines 273-289.  An Accept header of the model names one media type.
resolveFormat(in, defaultFormat) ==
    IF Truthy(in.format) THEN in.format
    ELSE IF in.accept = "application/x-ndjson" THEN "ndjson"
    ELSE IF in.accept = "application/json" THEN "json"
    ELSE defaultFormat

\* Lines 72 and 162: the rows of the protocol asked for, all rows if none.
FilterRows(rows, protocol) ==
    IF Truthy(protocol)
    THEN SelectSeq(rows, LAMBDA row : RowField(row, "protocol") = protocol)
    ELSE rows
Filters(protocol) ==
    [protocol |-> IF Truthy(protocol) THEN protocol ELSE Undefined]

\* rowsByDate.flat()
RECURSIVE Flat(_)
Flat(rowsByDate) ==
    IF rowsByDate = <<>> THEN <<>>
    ELSE Head(rowsByDate) \o Flat(Tail(rowsByDate))

\* rows.slice(start, end)
Slice(rows, start, end) ==
    SubSeq(rows, start + 1, IF end < Len(rows) THEN end ELSE Len(rows))

\* The handler's state while it works on request `in`: the accessor call it
\* makes next, what it has gathered, and as history the accessor calls made,
\* what each came to, and the replies sent.
NoManifest == [none |-> TRUE]
HealthPayload(lendingUpdatedAt, borrowingUpdatedAt) ==
    [kind |-> "health", ok |-> TRUE, lendingUpdatedAt |-> lendingUpdatedAt,
     borrowingUpdatedAt |-> borrowingUpdatedAt]
Handling(in) ==
    [pc |-> "call", in |-> in, stage |-> "manifest",
     next |-> ManifestRequest(in.dataset),
     manifest |-> NoManifest, etag |-> Undefined, range |-> NoRange,
     dates |-> <<>>, rowsByDate |-> <<>>,
     statusCode |-> 200, payload |-> HealthPayload(Undefined, Undefined),
     fetches |-> <<>>, outcomes |-> <<>>, replies |-> <<>>]

\* The handler sends `reply` and returns.
Done(h, reply) ==
    [Handling(h.in) EXCEPT !.pc = "replied", !.stage = "done",
                           !.fetches = h.fetches, !.outcomes = h.outcomes,
                           !.replies = Append(h.replies, reply)]

\* What the accessor call behind fetchResource result r came to, for the
\* history.
Outcome(r) ==
    LET o == Accessor(r)
    IN  [req |-> r.req, kind |-> o.kind, statusCode |-> r.statusCode,
         upstream |-> r.upstream, requests |-> r.requests,
         cachedCopy |-> r.cached # NoEntry, etag |-> r.etag,
         value |-> IF o.kind # "ok" THEN NoManifest
                   ELSE IF r.req.op = "getManifest" THEN o.manifest ELSE o.data]

\* A not-found error handled like any other failure.
safeGetManifest_NoNotFound(o) ==
    IF o.kind = "UpstreamUnavailableError"
    THEN sendError(o.statusCode, "Upstream manifest unavailable")
    ELSE sendError(502, "Failed to fetch manifest")

\* Lines 237-253: the reply safeGetManifest sends for a rejected getManifest.
safeGetManifest(o) ==
    IF o.kind = "UpstreamNotFoundError"
    THEN sendError(404, "Manifest not found")
    ELSE IF o.kind = "UpstreamUnavailableError"
    THEN sendError(o.statusCode, "Upstream manifest unavailable")
    ELSE sendError(502, "Failed to fetch manifest")

\* Lines 255-271: the reply safeGetDaily sends for a rejected getDailyDataset.
safeGetDaily(o, date) ==
    IF o.kind = "UpstreamNotFoundError"
    THEN sendError(404, "Data not found for " \o date)
    ELSE IF o.kind = "UpstreamUnavailableError"
    THEN sendError(o.statusCode, "Upstream data unavailable")
    ELSE sendError(502, "Failed to fetch dataset")



\* A conditional reply that compares against the manifest's entity tag only.
LatestReply_ManifestTagOnly(in, manifest, etag, data, dataEtag) ==
    LET latestDate == Field(manifest, "latest")
        format == resolveFormat(in, "json")
        filtered == FilterRows(data.items, in.protocol)
        upstreamEtag == etag
    IN  IF Truthy(in.ifNoneMatch) /\ Truthy(upstreamEtag)
           /\ in.ifNoneMatch = upstreamEtag
        THEN Reply(304, applyHeaders(format, upstreamEtag), EmptyBody)
        ELSE IF in.method = "HEAD"
        THEN Reply(200, applyHeaders(format, upstreamEtag), EmptyBody)
        ELSE IF format = "ndjson"
        THEN Reply(200, applyHeaders("ndjson", upstreamEtag),
                   [kind |-> "ndjson",
                    envelope |-> [dataset |-> in.dataset, asOfDate |-> latestDate,
                                  updatedAt |-> Field(manifest, "updated_at"),
                                  filters |-> Filters(in.protocol),
                                  count |-> Len(filtered)],
                    lines |-> filtered])
        ELSE Reply(200, applyHeaders("json", upstreamEtag),
                   [kind |-> "latest", dataset |-> in.dataset,
                    asOfDate |-> latestDate,
                    updatedAt |-> Field(manifest, "updated_at"),
                    filters |-> Filters(in.protocol),
                    count |-> Len(filtered), data |-> filtered])

\* Lines 72-107: the reply of handleLatest once it has the manifest (with
\* its entity tag) and the latest day's rows (with theirs).
LatestReply(in, manifest, etag, data, dataEtag) ==
    LET latestDate == Field(manifest, "latest")
        format == resolveFormat(in, "json")
        filtered == FilterRows(data.items, in.protocol)
        upstreamEtag == Coalesce(dataEtag, etag)
    IN  IF Truthy(in.ifNoneMatch) /\ Truthy(upstreamEtag)
           /\ in.ifNoneMatch = upstreamEtag
        THEN Reply(304, applyHeaders(format, upstreamEtag), EmptyBody)
        ELSE IF in.method = "HEAD"
        THEN Reply(200, applyHeaders(format, upstreamEtag), EmptyBody)
        ELSE IF format = "ndjson"
        THEN Reply(200, applyHeaders("ndjson", upstreamEtag),
                   [kind |-> "ndjson",
                    envelope |-> [dataset |-> in.dataset, asOfDate |-> latestDate,
                                  updatedAt |-> Field(manifest, "updated_at"),
                                  filters |-> Filters(in.protocol),
                                  count |-> Len(filtered)],
                    lines |-> filtered])
        ELSE Reply(200, applyHeaders("json", upstreamEtag),
                   [kind |-> "latest", dataset |-> in.dataset,
                    asOfDate |-> latestDate,
                    updatedAt |-> Field(manifest, "updated_at"),
                    filters |-> Filters(in.protocol),
                    count |-> Len(filtered), data |-> filtered])

\* Lines 49-108: handleLatest resumed with what its accessor call came to.
handleLatest(h, o) ==
    IF h.stage = "manifest"
    THEN IF o.kind # "ok" THEN Done(h, safeGetManifest(o))
         ELSE LET latestDate == Field(o.manifest, "latest")
              IN  IF ~Truthy(latestDate)
                  THEN Done(h, sendError(404, "No data available for latest date"))
                  ELSE [h EXCEPT !.stage = "daily", !.manifest = o.manifest,
                                 !.etag = o.etag,
                                 !.next = DailyRequest(h.in.dataset, latestDate)]
    ELSE IF o.kind # "ok" THEN Done(h, safeGetDaily(o, h.next.date))
         ELSE Done(h, LatestReply(h.in, h.manifest, h.etag, o.data, o.etag))

\* Lines 129-152: the reply of handleAll when no date is in range.
EmptyAllReply(in, range) ==
    LET format == resolveFormat(in, "ndjson")
    IN  IF in.method = "HEAD"
        THEN Reply(200, applyHeaders(format, Undefined), EmptyBody)
        ELSE IF format = "ndjson"
        THEN Reply(200, applyHeaders("ndjson", Undefined),
                   [kind |-> "ndjson",
                    envelope |-> [dataset |-> in.dataset, range |-> range,
                                  filters |-> Filters(in.protocol)],
                    lines |-> <<>>])
        ELSE Reply(200, applyHeaders("json", Undefined),
                   [kind |-> "page", dataset |-> in.dataset, range |-> range,
                    filters |-> Filters(in.protocol),
                    page |-> PageOf(in), perPage |-> PerPageOf(in),
                    total |-> 0, data |-> <<>>])

\* A page that starts one row late.
AllReply_OffByOne(in, range, rowsByDate) ==
    LET allRows == Flat(rowsByDate)
        start == (PageOf(in) - 1) * PerPageOf(in) + 1
    IN  Reply(200, applyHeaders("json", Undefined),
              [kind |-> "page", dataset |-> in.dataset, range |-> range,
               filters |-> Filters(in.protocol),
               page |-> PageOf(in), perPage |-> PerPageOf(in),
               total |-> Len(allRows),
               data |-> Slice(allRows, start, start + PerPageOf(in))])

\* Lines 166-209: the reply of handleAll once every date's rows are in.
AllReply(in, range, rowsByDate) ==
    LET format == resolveFormat(in, "ndjson")
        allRows == Flat(rowsByDate)
        start == (PageOf(in) - 1) * PerPageOf(in)
    IN  IF format = "ndjson"
        THEN IF in.method = "HEAD"
             THEN Reply(200, applyHeaders("ndjson", Undefined), EmptyBody)
             ELSE Reply(200, applyHeaders("ndjson", Undefined),
                        [kind |-> "ndjson",
                         envelope |-> [dataset |-> in.dataset, range |-> range,
                                       filters |-> Filters(in.protocol)],
                         lines |-> allRows])
        ELSE IF in.method = "HEAD"
        THEN Reply(200, applyHeaders("json", Undefined), EmptyBody)
        ELSE Reply(200, applyHeaders("json", Undefined),
                   [kind |-> "page", dataset |-> in.dataset, range |-> range,
                    filters |-> Filters(in.protocol),
                    page |-> PageOf(in), perPage |-> PerPageOf(in),
                    total |-> Len(allRows),
                    data |-> Slice(allRows, start, start + PerPageOf(in))])


\* A failed day answered with the rows gathered so far.
handleAll_Partial(h, o) ==
    IF h.stage = "manifest"
    THEN IF o.kind # "ok" THEN Done(h, safeGetManifest(o))
         ELSE LET range == resolveRange(h.in, o.manifest)
                  dates == IF range = NoRange THEN <<>>
                           ELSE SelectSeq(Field(o.manifest, "dates"),
                                          LAMBDA date : inRange(date, range.from, range.to))
              IN  IF range = NoRange
                  THEN Done(h, sendError(400, "from must be less than or equal to to"))
                  ELSE IF Len(dates) = 0 THEN Done(h, EmptyAllReply(h.in, range))
                  ELSE [h EXCEPT !.stage = "daily", !.manifest = o.manifest,
                                 !.range = range, !.dates = dates,
                                 !.next = DailyRequest(h.in.dataset, dates[1])]
    ELSE IF o.kind # "ok" THEN Done(h, AllReply(h.in, h.range, h.rowsByDate))
         ELSE LET rowsByDate ==
                      Append(h.rowsByDate, FilterRows(o.data.items, h.in.protocol))
              IN  IF Len(rowsByDate) < Len(h.dates)
                  THEN [h EXCEPT !.rowsByDate = rowsByDate,
                                 !.next = DailyRequest(h.in.dataset,
                                                       h.dates[Len(rowsByDate) + 1])]
                  ELSE Done(h, AllReply(h.in, h.range, rowsByDate))

\* Lines 110-210: handleAll resumed with what its accessor call came to.
handleAll(h, o) ==
    IF h.stage = "manifest"
    THEN IF o.kind # "ok" THEN Done(h, safeGetManifest(o))
         ELSE LET range == resolveRange(h.in, o.manifest)
                  dates == IF range = NoRange THEN <<>>
                           ELSE SelectSeq(Field(o.manifest, "dates"),
                                          LAMBDA date : inRange(date, range.from, range.to))
              IN  IF range = NoRange
                  THEN Done(h, sendError(400, "from must be less than or equal to to"))
                  ELSE IF Len(dates) = 0 THEN Done(h, EmptyAllReply(h.in, range))
                  ELSE [h EXCEPT !.stage = "daily", !.manifest = o.manifest,
                                 !.range = range, !.dates = dates,
                                 !.next = DailyRequest(h.in.dataset, dates[1])]
    ELSE IF o.kind # "ok" THEN Done(h, safeGetDaily(o, h.next.date))
         ELSE LET rowsByDate ==
                      Append(h.rowsByDate, FilterRows(o.data.items, h.in.protocol))
              IN  IF Len(rowsByDate) < Len(h.dates)
                  THEN [h EXCEPT !.rowsByDate = rowsByDate,
                                 !.next = DailyRequest(h.in.dataset,
                                                       h.dates[Len(rowsByDate) + 1])]
                  ELSE Done(h, AllReply(h.in, h.range, rowsByDate))

\* Lines 212-235: handleDates resumed with what getManifest came to.
handleDates(h, o) ==
    IF o.kind # "ok" THEN Done(h, safeGetManifest(o))
    ELSE IF Truthy(h.in.ifNoneMatch) /\ Truthy(o.etag) /\ h.in.ifNoneMatch = o.etag
    THEN Done(h, Reply(304, applyHeaders("json", o.etag), EmptyBody))
    ELSE IF h.in.method = "HEAD"
    THEN Done(h, Reply(200, applyHeaders("json", o.etag), EmptyBody))
    ELSE Done(h, Reply(200, applyHeaders("json", o.etag),
                       [kind |-> "dates", dataset |-> h.in.dataset,
                        latest |-> Field(o.manifest, "latest"),
                        updatedAt |-> Field(o.manifest, "updated_at"),
                        dates |-> Field(o.manifest, "dates")]))

\* A health check that gives up when the lending manifest is unavailable.
health_StopsAtLending(h, o) ==
    IF h.stage = "lending"
    THEN IF o.kind = "ok"
         THEN [h EXCEPT !.stage = "borrowing",
                        !.payload.lendingUpdatedAt = Field(o.manifest, "updated_at"),
                        !.next = ManifestRequest("borrowing")]
         ELSE Done(h, Reply(206, applyHeaders("json", Undefined), h.payload))
    ELSE LET payload == IF o.kind = "ok"
                        THEN [h.payload EXCEPT
                                !.borrowingUpdatedAt = Field(o.manifest, "updated_at")]
                        ELSE h.payload
             statusCode == IF o.kind = "ok" THEN h.statusCode ELSE 206
         IN  Done(h, Reply(statusCode, applyHeaders("json", Undefined),
                           IF h.in.method = "HEAD" THEN EmptyBody ELSE payload))

\* part_003 lines 93-125: the /v1/health handler resumed with what its
\* getManifest call came to.
health(h, o) ==
    IF h.stage = "lending"
    THEN IF o.kind = "ok"
         THEN [h EXCEPT !.stage = "borrowing",
                        !.payload.lendingUpdatedAt = Field(o.manifest, "updated_at"),
                        !.next = ManifestRequest("borrowing")]
         ELSE [h EXCEPT !.stage = "borrowing", !.statusCode = 206,
                        !.next = ManifestRequest("borrowing")]
    ELSE LET payload == IF o.kind = "ok"
                        THEN [h.payload EXCEPT
                                !.borrowingUpdatedAt = Field(o.manifest, "updated_at")]
                        ELSE h.payload
             statusCode == IF o.kind = "ok" THEN h.statusCode ELSE 206
         IN  Done(h, Reply(statusCode, applyHeaders("json", Undefined),
                           IF h.in.method = "HEAD" THEN EmptyBody ELSE payload))

\* The route handler from the arrival of the request to its first accessor
\* call: parseLatest / parseAll reject a query that fails the schema with 400
\* and the schema's message.
Begin(in) ==
    IF in.route = "health"
    THEN [Handling(in) EXCEPT !.stage = "lending", !.next = ManifestRequest("lending")]
    ELSE IF in.route = "all" /\ ~(ValidPage(in) /\ ValidPerPage(in))
    THEN Done(Handling(in), sendError(400, "Invalid query parameters"))
    ELSE Handling(in)

\* The handler resumed with the result r of the fetchResource call its
\* accessor call made.
Continue(h, r) ==
    LET o == Accessor(r)
        h1 == [h EXCEPT !.outcomes = Append(@, Outcome(r))]
    IN  CASE h.in.route = "latest" -> handleLatest(h1, o)
          [] h.in.route = "all" -> handleAll(h1, o)
          [] h.in.route = "dates" -> handleDates(h1, o)
          [] h.in.route = "health" -> health(h1, o)

\* An HTTP request arrives; the previous one has been answered.
HttpRequest(in) ==
    /\ http.pc \in {"idle", "replied"}
    /\ http' = Begin(in)
    /\ result' = NoResult
    /\ UNCHANGED <<env, max, cache, calls, hist, touched>>

\* The handler makes its next accessor call; on a fresh hit it is resumed
\* with the result at once.
HttpFetchStart(c) ==
    /\ http.pc = "call"
    /\ FetchStart(c, http.next)
    /\ LET h == [http EXCEPT !.fetches = Append(@, http.next)]
       IN  http' = IF result'.kind = "none" THEN h ELSE Continue(h, result')

\* The origin answers the handler's call, and the handler is resumed.
HttpRespond(c, response) ==
    /\ http.pc = "call"
    /\ Respond(c, response)
    /\ http' = Continue(http, result')

\* The origin request of the handler's call fails, and the handler is
\* resumed with the rejection.
HttpTransportFail(c) ==
    /\ http.pc = "call"
    /\ TransportFail(c)
    /\ http' = Continue(http, result')

\* The files at the origin, as the route tests have them, and the entity tag
\* each is served with.
FileOf(req) ==
    IF req.op = "getManifest"
    THEN IF req.dataset = "lending" THEN LendingManifestText ELSE BorrowingManifestText
    ELSE IF req.date = "2025-09-28" THEN Rows28Text ELSE Rows30Text
EtagOf(req) ==
    IF req.op = "getManifest" THEN "etag-manifest-" \o req.dataset
    ELSE "etag-" \o req.dataset \o "-" \o req.date
FileResponse(req, withEtag) ==
    [statusCode |-> 200,
     headers |-> [etag |-> IF withEtag THEN HdrString(EtagOf(req)) ELSE HdrAbsent,
                  lastModified |-> HdrAbsent,
                  contentType |-> HdrString("application/json")],
     body |-> FileOf(req)]
ErrorResponse(statusCode) ==
    [statusCode |-> statusCode,
     headers |-> [etag |-> HdrAbsent, lastModified |-> HdrAbsent,
                  contentType |-> HdrAbsent],
     body |-> UnparsableText]

In(route, dataset, method, ifNoneMatch, protocol, format, from, to, page, per_page) ==
    [route |-> route, dataset |-> dataset, method |-> method,
     accept |-> Undefined, ifNoneMatch |-> ifNoneMatch,
     protocol |-> protocol, format |-> format, from |-> from, to |-> to,
     page |-> page, per_page |-> per_page]

\* The routes of both datasets and the health check, each with its default
\* query, against an origin that serves the file, or answers 404 or 503, or
\* cannot be reached.
HttpInputs ==
    { In(route, dataset, "GET", Undefined, Undefined, Undefined, Undefined,
         Undefined, Undefined, Undefined) :
        route \in {"latest", "all", "dates"}, dataset \in {"lending", "borrowing"} }
      \cup { In("health", "lending", method, Undefined, Undefined, Undefined,
                Undefined, Undefined, Undefined, Undefined) :
                method \in {"GET", "HEAD"} }
HttpOrigin(req) == {FileResponse(req, TRUE), ErrorResponse(404), ErrorResponse(503)}
NextHttp ==
    \/ \E in \in HttpInputs : HttpRequest(in)
    \/ \E c \in Calls : HttpFetchStart(c)
    \/ \E c \in Calls :
          /\ calls[c].pc = "awaiting"
          /\ \E response \in HttpOrigin(calls[c].req) : HttpRespond(c, response)
    \/ \E c \in Calls : HttpTransportFail(c)
    \/ invalidateCache /\ UNCHANGED http
    \/ Tick /\ UNCHANGED http
SpecHttp == Init /\ [][NextHttp]_vars

\* GET /v1/lending/latest with each If-None-Match header a client may send
\* (none, the day file's tag, the manifest's tag, another tag), against an
\* origin that serves every file, with or without an entity tag.
LatestInputs ==
    { In("latest", "lending", "GET", ifNoneMatch, Undefined, format, Undefined,
         Undefined, Undefined, Undefined) :
        ifNoneMatch \in {Undefined, EtagOf(DailyRequest("lending", "2025-09-30")),
                         EtagOf(ManifestRequest("lending")), "etag-other"},
        format \in {Undefined, "ndjson"} }
LatestOrigin(req) == {FileResponse(req, TRUE), FileResponse(req, FALSE)}
NextLatest ==
    \/ \E in \in LatestInputs : HttpRequest(in)
    \/ \E c \in Calls : HttpFetchStart(c)
    \/ \E c \in Calls :
          /\ calls[c].pc = "awaiting"
          /\ \E response \in LatestOrigin(calls[c].req) : HttpRespond(c, response)
    \/ invalidateCache /\ UNCHANGED http
    \/ Tick /\ UNCHANGED http
SpecLatest == Init /\ [][NextLatest]_vars

\* GET /v1/{dataset}/all in JSON format with the queries of the model:
\* protocol, from, to, page and per_page each given or not, page and per_page
\* also outside what the schema admits, against an origin that serves every
\* file.  The borrowing manifest lists no date.
AllPages == {Undefined, "0", "2", "3"}
AllPerPages == {Undefined, "2", "10001"}
AllInputs ==
    { In("all", "lending", "GET", Undefined, protocol, "json", from, to, page, per_page) :
        protocol \in {Undefined, "Vesu"}, from \in {Undefined, "2025-09-30"},
        to \in {Undefined, "2025-09-28"}, page \in AllPages,
        per_page \in AllPerPages }
      \cup { In("all", "borrowing", "GET", Undefined, Undefined, "json", Undefined,
                Undefined, page, per_page) :
                page \in AllPages, per_page \in AllPerPages }
AllOrigin(req) == {FileResponse(req, TRUE)}
NextAll ==
    \/ \E in \in AllInputs : HttpRequest(in)
    \/ \E c \in Calls : HttpFetchStart(c)
    \/ \E c \in Calls :
          /\ calls[c].pc = "awaiting"
          /\ \E response \in AllOrigin(calls[c].req) : HttpRespond(c, response)
    \/ invalidateCache /\ UNCHANGED http
    \/ Tick /\ UNCHANGED http
SpecAll == Init /\ [][NextAll]_vars

\* Callers asking for both manifests and for day files under each date
\* string of KeyDates, against an origin whose answer to a request names the
\* resource asked for, or is 404; the calls are made within the TTLs.
KeyRequests ==
    [op : {"getManifest"}, dataset : {"lending", "borrowing"}, date : {Undefined}]
      \cup [op : {"getDailyDataset"}, dataset : {"lending", "borrowing"},
            date : KeyDates]
IdentityText(req) == req.op \o "(" \o req.dataset \o "," \o req.date \o ")"
KeysOrigin(req) ==
    { [statusCode |-> 200,
       headers |-> [etag |-> HdrAbsent, lastModified |-> HdrAbsent,
                    contentType |-> HdrAbsent],
       body |-> IdentityText(req)],
      ErrorResponse(404) }
NextKeys ==
    \/ \E c \in Calls, req \in KeyRequests : FetchStart(c, req) /\ UNCHANGED http
    \/ \E c \in Calls :
          /\ calls[c].pc = "awaiting"
          /\ \E response \in KeysOrigin(calls[c].req) :
                Respond(c, response) /\ UNCHANGED http
    \/ invalidateCache /\ UNCHANGED http
SpecKeys == Init /\ [][NextKeys]_vars

\* Two callers whose calls overlap: an await suspends a call, and the other
\* caller's steps run before it resumes.  The origin serves each resource a
\* text of its own with an entity tag, or confirms with 304 the validator of
\* a request that carries one.
Callers == {"c1", "c2"}
InitConcurrent ==
    /\ env \in EnvSmall
    /\ max = CacheMax(env)
    /\ cache = <<>>
    /\ calls = [c \in Callers |-> Idle]
    /\ result = NoResult
    /\ hist = [r \in AllRequests |-> NoHist]
    /\ touched = <<>>
    /\ http = HttpIdle
ConcurrentOrigin(call) ==
    { [statusCode |-> s,
       headers |-> [etag |-> HdrString("etag-1"), lastModified |-> HdrAbsent,
                    contentType |-> HdrAbsent],
       body |-> IF s = 200 THEN IdentityText(call.req) ELSE ""] :
         s \in IF call.ifNoneMatch # Undefined THEN {200, 304} ELSE {200} }
NextConcurrent ==
    \/ \E c \in Callers, req \in Requests : FetchStart(c, req) /\ UNCHANGED http
    \/ \E c \in Callers :
          /\ calls[c].pc = "awaiting"
          /\ \E response \in ConcurrentOrigin(calls[c]) :
                Respond(c, response) /\ UNCHANGED http
    \/ invalidateCache /\ UNCHANGED http
    \/ Tick /\ UNCHANGED http
SpecConcurrent == InitConcurrent /\ [][NextConcurrent]_vars

\* Two callers asking for the same resource, the lending manifest, while the
\* origin moves between the two versions of the file and answers 200, or
\* 304 to a request that carries a validator.
SameKeyRequest == ManifestRequest("lending")
SameKeyOrigin(call) ==
    {r \in Responses :
        r.statusCode = 200 \/ (r.statusCode = 304 /\ call.ifNoneMatch # Undefined)}
NextSameKey ==
    \/ \E c \in Callers : FetchStart(c, SameKeyRequest) /\ UNCHANGED http
    \/ \E c \in Callers :
          /\ calls[c].pc = "awaiting"
          /\ \E response \in SameKeyOrigin(calls[c]) :
                Respond(c, response) /\ UNCHANGED http
    \/ invalidateCache /\ UNCHANGED http
    \/ Tick /\ UNCHANGED http
SpecSameKey == InitConcurrent /\ [][NextSameKey]_vars

\* ========================================================== properties
Is2xx(statusCode) == statusCode >= 200 /\ statusCode < 300
Finished == result.kind # "none"
Failed == result.kind \notin {"none", "ok"}
ContactedOrigin == Finished /\ result.requests = 1
NoResponse == ContactedOrigin /\ result.upstream = NoStatus
SourceOf(req) == FetchOptions(req).source

\* h records a 2xx fetch less than the class TTL ago.
Within2xx(h) == h # NoHist /\ h # Expired /\ h.how = "store" /\ Is2xx(h.statusCode)

\* r is a fresh hit on the entry h describes.
IsFreshHitOn(r, h) ==
    /\ r.kind = "ok"
    /\ r.requests = 0
    /\ r.buffer = h.buffer
    /\ r.metrics = Metrics(TRUE, h.statusCode, FALSE, SourceOf(r.req))

\* C1 as stated: a fetch of a resource less than the class TTL after a 2xx
\* fetch of it, with no invalidateCache in between, issues no origin request
\* and returns the same payload with cacheHit, not stale, the stored status.
C1_FreshHitUnlessInvalidated ==
    /\ \A c \in Calls : calls[c].pc = "awaiting" => ~Within2xx(calls[c].prior)
    /\ (Finished /\ Within2xx(result.prior)) => IsFreshHitOn(result, result.prior)

\* C1 amended: the same, provided that in between the entry was also not
\* evicted for capacity (nor rewritten by another call).
C1_FreshHit ==
    /\ \A c \in Calls :
          (calls[c].pc = "awaiting" /\ Within2xx(calls[c].prior))
             => ~calls[c].prior.intact
    /\ (Finished /\ Within2xx(result.prior) /\ result.prior.intact)
          => IsFreshHitOn(result, result.prior)

C1_Witness ==
    /\ Finished /\ Within2xx(result.prior) /\ result.prior.intact
    /\ result.requests = 0 /\ result.metrics.cacheHit

\* C2: a call that found an entry past its TTL and got a status >= 400 (404
\* included) returns that entry's payload with cacheHit, servedStale and the
\* status received.
C2_StaleServeOnErrorStatus ==
    (ContactedOrigin /\ result.cached # NoEntry /\ result.upstream >= 400)
       => /\ result.kind = "ok"
          /\ result.buffer = result.cached.body
          /\ result.metrics = Metrics(TRUE, result.upstream, TRUE, SourceOf(result.req))

C2_Witness ==
    /\ ContactedOrigin /\ result.cached # NoEntry /\ result.upstream = 404
    /\ result.kind = "ok" /\ result.metrics.servedStale

\* C3: a call that found an entry past its TTL and whose origin request
\* failed without a response returns that entry's payload with cacheHit and
\* servedStale.
C3_StaleServeOnTransportFailure ==
    (NoResponse /\ result.cached # NoEntry)
       => /\ result.kind = "ok"
          /\ result.buffer = result.cached.body
          /\ result.metrics.cacheHit /\ result.metrics.servedStale

\* The class TTL of a request, in ms.
ClassTtlMs(req) ==
    IF req.op = "getManifest" THEN manifestTtlSeconds * 1000 ELSE dataTtlSeconds * 1000
SlotOf(req) == cache[IndexOf(cache, KeyOf(req))]
Stored(req) == KeyOf(req) \in Keys(cache)

\* h records a 304 revalidation less than the class TTL ago.
Within304(h) == h # NoHist /\ h # Expired /\ h.how = "revalidate"

\* A 304 answered to a call that sent the entity tag of the entry it found:
\* the payload found is returned with cacheHit, not stale, status 304, and
\* the entry is back in the store with that payload and the full class TTL.
RevalidationStep ==
    (ContactedOrigin /\ result.cached # NoEntry /\ result.upstream = 304
       /\ result.cached.etag # Undefined)
       => /\ result.kind = "ok"
          /\ result.buffer = result.cached.body
          /\ result.metrics = Metrics(TRUE, 304, FALSE, SourceOf(result.req))
          /\ Stored(result.req)
          /\ SlotOf(result.req).value.body = result.cached.body
          /\ SlotOf(result.req).value.etag = result.cached.etag
          /\ getRemainingTTL(cache, KeyOf(result.req)) = ClassTtlMs(result.req)

\* C4 as stated: RevalidationStep, and any further fetch less than the class
\* TTL after the 304 is a fresh hit without origin contact.
C4_RevalidationThenAlwaysFresh ==
    /\ RevalidationStep
    /\ \A c \in Calls : calls[c].pc = "awaiting" => ~Within304(calls[c].prior)
    /\ (Finished /\ Within304(result.prior)) => IsFreshHitOn(result, result.prior)

\* C4 amended: RevalidationStep, and a further fetch less than the class TTL
\* after the 304 is a fresh hit without origin contact unless the entry was
\* removed in between (invalidateCache, capacity eviction).
C4_Revalidation ==
    /\ RevalidationStep
    /\ \A c \in Calls :
          (calls[c].pc = "awaiting" /\ Within304(calls[c].prior))
             => ~calls[c].prior.intact
    /\ (Finished /\ Within304(result.prior) /\ result.prior.intact)
          => IsFreshHitOn(result, result.prior)

C4_Witness ==
    /\ Finished /\ Within304(result.prior) /\ result.prior.intact
    /\ result.requests = 0 /\ result.metrics.upstreamStatus = 304
    /\ result.etag # Undefined

\* C5: a call that found no entry and got 404 fails with
\* UpstreamNotFoundError and returns no payload; the step that raises the
\* error leaves the store as it was, so the resource is still without an
\* entry; and no call that finds no entry returns without an origin request.
C5_FirstMissNotFound ==
    /\ []((ContactedOrigin /\ result.cached = NoEntry /\ result.upstream = 404)
            => /\ result.kind = "UpstreamNotFoundError"
               /\ result.buffer = Undefined)
    /\ []((Finished /\ result.cached = NoEntry) => result.requests = 1)
    /\ [][result'.kind = "UpstreamNotFoundError"
            => /\ cache' = cache
               /\ KeyOf(result'.req) \notin Keys(cache')]_vars

C5_Witness ==
    /\ ContactedOrigin /\ result.cached = NoEntry /\ result.upstream = 404
    /\ result.kind = "UpstreamNotFoundError" /\ cache # <<>>

\* C6: a call that found no entry and got a status >= 400 other than 404
\* fails with UpstreamUnavailableError carrying that status; the step that
\* raises the error leaves the store as it was, so the resource is still
\* without an entry.
C6_FirstMissUnavailable ==
    /\ []((ContactedOrigin /\ result.cached = NoEntry
             /\ result.upstream >= 400 /\ result.upstream # 404)
            => /\ result.kind = "UpstreamUnavailableError"
               /\ result.statusCode = result.upstream)
    /\ [][result'.kind = "UpstreamUnavailableError"
            => /\ cache' = cache
               /\ KeyOf(result'.req) \notin Keys(cache')]_vars

C6_Witness ==
    /\ ContactedOrigin /\ result.cached = NoEntry /\ result.upstream = 502
    /\ result.kind = "UpstreamUnavailableError" /\ result.statusCode = 502
    /\ cache # <<>>

\* C7: a call that found no entry and whose origin request failed without a
\* response fails with UpstreamUnavailableError, so that every failure of
\* fetchResource is an UpstreamNotFoundError or an UpstreamUnavailableError.
C7_FailuresAreCategorized ==
    /\ (NoResponse /\ result.cached = NoEntry)
          => result.kind = "UpstreamUnavailableError"
    /\ Failed => result.kind \in {"UpstreamNotFoundError", "UpstreamUnavailableError"}

\* C8: a call that found an entry and received anything but a 2xx status (a
\* 304, a status >= 400, another non-2xx status, no response) leaves the
\* payload stored for the resource, if one is stored, as it found it.
C8_PayloadReplacedOnlyOn2xx ==
    (ContactedOrigin /\ result.cached # NoEntry /\ ~Is2xx(result.upstream)
       /\ Stored(result.req))
       => SlotOf(result.req).value.body = result.cached.body

\* C9: an entry written since the last invalidateCache and not evicted for
\* capacity is in the store, whatever its age, and a call for its resource
\* never fails on an origin status.
C9_EntryPersists ==
    /\ \A req \in Requests :
          (hist[req] # NoHist /\ (hist[req] = Expired \/ hist[req].intact))
             => Stored(req)
    /\ (ContactedOrigin /\ result.upstream >= 400 /\ result.prior # NoHist
          /\ (result.prior = Expired \/ result.prior.intact))
          => /\ result.kind = "ok"
             /\ result.metrics.servedStale

\* C10: the store never holds more than the configured maximum (500 unless
\* CACHE_MAX_ENTRIES is a positive finite number); a write of a key that is
\* not there to a full store removes exactly the least recently accessed key,
\* and any other write removes none.
ConfiguredMax == IF env = "2" THEN 2 ELSE 500
WroteEntry(req) ==
    /\ result'.kind = "ok" /\ result'.req = req /\ result'.requests = 1
    /\ ~result'.metrics.servedStale
KeysAfterWrite(k) ==
    IF k \in Keys(cache) THEN Keys(cache)
    ELSE IF Cardinality(Keys(cache)) = ConfiguredMax
         THEN (Keys(cache) \ {Head(touched)}) \cup {k}
         ELSE Keys(cache) \cup {k}
C10_BoundedLru ==
    /\ [](Len(cache) <= max /\ max = ConfiguredMax)
    /\ [][\A req \in Requests :
             WroteEntry(req) => Keys(cache') = KeysAfterWrite(KeyOf(req))]_vars

C10_Witness ==
    /\ ContactedOrigin /\ result.kind = "ok" /\ ~result.metrics.servedStale
    /\ Len(cache) = max
    /\ \E req \in Requests :
          hist[req] # NoHist /\ hist[req] # Expired /\ ~hist[req].intact

\* C11: a call that contacted the origin (it found no entry, or a stale one)
\* and received a 2xx response leaves, under the resource's key, an entry
\* holding the response's body, ETag, Last-Modified, Content-Type and status,
\* with the full class TTL ahead of it, and returns that body with
\* cacheHit=false, servedStale=false and the received status.
C11_SuccessfulRefetch ==
    [][\A c \in Calls, response \in Responses :
         (Respond(c, response) /\ Is2xx(response.statusCode))
            => LET req == calls[c].req
                   key == KeyOf(req)
               IN  /\ key \in Keys(cache')
                   /\ LET slot == cache'[IndexOf(cache', key)]
                      IN  /\ slot.value.body = response.body
                          /\ slot.value.etag = firstHeader(response.headers.etag)
                          /\ slot.value.lastModified
                                = firstHeader(response.headers.lastModified)
                          /\ slot.value.contentType
                                = firstHeader(response.headers.contentType)
                          /\ slot.value.statusCode = response.statusCode
                          /\ slot.ttl = ClassTtlMs(req)
                          /\ slot.age = 0
                   /\ result'.kind = "ok"
                   /\ result'.req = req
                   /\ result'.buffer = response.body
                   /\ result'.metrics
                         = Metrics(FALSE, response.statusCode, FALSE, SourceOf(req))]_vars

C11_Witness ==
    /\ ContactedOrigin /\ result.kind = "ok" /\ Is2xx(result.upstream)
    /\ ~result.metrics.cacheHit /\ ~result.metrics.servedStale
    /\ result.cached # NoEntry /\ result.cached.body # result.buffer
    /\ result.lastModified # Undefined
    /\ Stored(result.req)
    /\ SlotOf(result.req).value.body = result.buffer
    /\ SlotOf(result.req).age = 0

\* The last step was invalidateCache().
IsCleared == result.kind = "none" /\ "cleared" \in DOMAIN result

\* C12: right after invalidateCache() no resource has an entry; a fetch that
\* starts on the emptied store finds no entry and goes to the origin without
\* an If-None-Match header; and a call that found no entry and gets a status
\* >= 400 fails (not found on 404, unavailable otherwise) instead of
\* returning a payload.
C12_InvalidateClearsAll ==
    /\ [](IsCleared => /\ cache = <<>>
                       /\ \A req \in AllRequests : ~Stored(req))
    /\ [][\A c \in Calls, req \in Requests :
             (cache = <<>> /\ FetchStart(c, req))
                => /\ result' = NoResult
                   /\ calls'[c].pc = "awaiting"
                   /\ calls'[c].req = req
                   /\ calls'[c].cached = NoEntry
                   /\ calls'[c].ifNoneMatch = Undefined]_vars
    /\ []((ContactedOrigin /\ result.cached = NoEntry /\ result.upstream >= 400)
            => /\ result.buffer = Undefined
               /\ result.kind = IF result.upstream = 404
                                THEN "UpstreamNotFoundError"
                                ELSE "UpstreamUnavailableError")

C12_Witness ==
    /\ IsCleared /\ result.cleared = 2
    /\ cache = <<>>
    /\ \A c \in Calls : calls[c].pc = "idle"

\* The bytes a fetchResource call returned are not JSON.
ReturnedUnparsable == result.kind = "ok" /\ ~JSONparse(result.buffer).ok

\* C13: when the bytes fetchResource returned (on a fresh hit, after a
\* store or a revalidation, or served stale) are not valid JSON, the accessor
\* rejects with an error that is neither UpstreamNotFoundError nor
\* UpstreamUnavailableError and resolves with no value at all, and the
\* fetchResource call it made issued at most one origin request and is over.
C13_ParseFailureUnmasked ==
    ReturnedUnparsable
       => /\ Accessor(result).kind
               \notin {"ok", "UpstreamNotFoundError", "UpstreamUnavailableError"}
          /\ DOMAIN Accessor(result) \cap {"manifest", "data"} = {}
          /\ result.requests <= 1
          /\ calls[result.call].pc = "idle"

C13_Witness ==
    /\ ReturnedUnparsable
    /\ result.metrics.servedStale
    /\ Accessor(result).kind = "Error"
    /\ result.req.op = "getDailyDataset"

\* The step is a fetchResource call for req that returns without contacting
\* the origin.
FreshHitStep(c, req) ==
    /\ FetchStart(c, req)
    /\ result'.kind = "ok" /\ result'.requests = 0

\* C14: every entry in the store carries the TTL of its class (manifest TTL
\* for a getManifest entry, daily-data TTL for a getDailyDataset entry); a
\* write, by the storing of a response or by a 304 revalidation, restarts the
\* entry's clock with that TTL; and a fetch of a resource that has an entry
\* is answered from it exactly when less than the class TTL has passed since
\* that write.
C14_TtlIsClassScoped ==
    /\ [](\A req \in Requests : Stored(req) => SlotOf(req).ttl = ClassTtlMs(req))
    /\ [][\A req \in Requests :
             WroteEntry(req)
                => LET slot == cache'[IndexOf(cache', KeyOf(req))]
                   IN  slot.ttl = ClassTtlMs(req) /\ slot.age = 0]_vars
    /\ [][\A c \in Calls, req \in Requests :
             (FetchStart(c, req) /\ Stored(req))
                => (FreshHitStep(c, req) <=> SlotOf(req).age < ClassTtlMs(req))]_vars

C14_Witness ==
    /\ ContactedOrigin /\ result.kind = "ok" /\ result.upstream = 304
    /\ result.cached # NoEntry
    /\ result.req.op = "getManifest"
    /\ SlotOf(result.req).ttl = manifestTtlSeconds * 1000
    /\ SlotOf(result.req).age = 0
    /\ \E req \in Requests :
          /\ req.op = "getDailyDataset" /\ Stored(req)
          /\ SlotOf(req).ttl = dataTtlSeconds * 1000
          /\ SlotOf(req).age = manifestTtlSeconds * 1000

\* The request being handled is for one of the dataset routes.
DatasetRoute == http.pc # "idle" /\ http.in.route \in {"latest", "all", "dates"}
Replied == http.pc = "replied"

\* The accessor call's fetch failed upstream with no cached copy to fall
\* back on: the origin answered >= 400 other than 404, or did not answer.
UnavailableNoCopy(o) ==
    /\ o.requests = 1 /\ ~o.cachedCopy
    /\ o.upstream = NoStatus \/ (o.upstream >= 400 /\ o.upstream # 404)

\* r is the one JSON error reply {error, code} with status code.
IsErrorReply(r, code) ==
    /\ r.statusCode = code
    /\ r.contentType = JsonType
    /\ r.body.kind = "error" /\ r.body.code = code

\* C15: on every route under /v1/lending and /v1/borrowing, when the fetch
\* of the manifest or of a day file fails upstream with no cached copy (an
\* origin status >= 400 other than 404, or a transport failure), the request
\* is answered with status 502 and body {error, code: 502}.
C15_UnavailableIs502 ==
    DatasetRoute
       => \A i \in 1..Len(http.outcomes) :
             UnavailableNoCopy(http.outcomes[i])
                => /\ Replied
                   /\ Len(http.replies) = 1
                   /\ IsErrorReply(http.replies[1], 502)

\* C16: when an accessor call of a /latest, /all or /dates request fails
\* with UpstreamNotFoundError, it is the request's last accessor call, the
\* request is answered with exactly one reply, 404 with JSON body
\* {error, code: 404}, and once answered the request makes no further call.
C16_NotFoundIs404 ==
    /\ [](DatasetRoute
            => \A i \in 1..Len(http.outcomes) :
                  http.outcomes[i].kind = "UpstreamNotFoundError"
                     => /\ Replied
                        /\ i = Len(http.outcomes) /\ i = Len(http.fetches)
                        /\ Len(http.replies) = 1
                        /\ IsErrorReply(http.replies[1], 404))
    /\ [][Replied => (http' = http \/ http'.fetches = <<>>)]_vars

C16_Witness ==
    /\ Replied /\ http.in.route = "all"
    /\ http.fetches = << ManifestRequest("lending"),
                         DailyRequest("lending", "2025-09-28") >>
    /\ http.outcomes[1].kind = "ok"
    /\ http.outcomes[2].kind = "UpstreamNotFoundError"
    /\ Len(http.replies) = 1 /\ http.replies[1].statusCode = 404

\* C17: a GET /v1/health makes both getManifest calls, lending then
\* borrowing, whatever the first comes to, and sends one reply: 200 with
\* ok:true and both updatedAt fields when both calls succeed; 206 with only
\* the updatedAt field of the manifest obtained when exactly one succeeds.
C17_Health ==
    /\ (http.pc = "call" /\ http.in.route = "health" /\ Len(http.outcomes) = 1)
          => http.next = ManifestRequest("borrowing")
    /\ (Replied /\ http.in.route = "health" /\ http.in.method = "GET")
          => /\ http.fetches = << ManifestRequest("lending"),
                                  ManifestRequest("borrowing") >>
             /\ Len(http.outcomes) = 2
             /\ Len(http.replies) = 1
             /\ LET lending == http.outcomes[1]
                    borrowing == http.outcomes[2]
                    reply == http.replies[1]
                IN  /\ reply.body.kind = "health" /\ reply.body.ok
                    /\ (lending.kind = "ok" /\ borrowing.kind = "ok")
                          => reply.statusCode = 200
                    /\ ((lending.kind = "ok") # (borrowing.kind = "ok"))
                          => reply.statusCode = 206
                    /\ reply.body.lendingUpdatedAt
                          = IF lending.kind = "ok"
                            THEN "2025-09-30T00:00:00Z" ELSE Undefined
                    /\ reply.body.borrowingUpdatedAt
                          = IF borrowing.kind = "ok"
                            THEN "2025-09-29T00:00:00Z" ELSE Undefined

C17_Witness ==
    /\ Replied /\ http.in.route = "health" /\ http.in.method = "GET"
    /\ http.outcomes[1].kind = "UpstreamUnavailableError"
    /\ http.outcomes[2].kind = "ok"
    /\ http.replies[1].statusCode = 206
    /\ http.replies[1].body.lendingUpdatedAt = Undefined
    /\ http.replies[1].body.borrowingUpdatedAt = "2025-09-29T00:00:00Z"

\* The request was GET /v1/{dataset}/latest and both accessor calls
\* succeeded.
LatestServed ==
    /\ Replied /\ http.in.route = "latest" /\ http.in.method = "GET"
    /\ Len(http.outcomes) = 2
    /\ http.outcomes[1].kind = "ok" /\ http.outcomes[2].kind = "ok"

\* The entity tag of the latest day file or, when it has none, that of the
\* manifest.
LatestTag ==
    IF http.outcomes[2].etag # Undefined
    THEN http.outcomes[2].etag ELSE http.outcomes[1].etag

\* C18: a GET /v1/{dataset}/latest whose If-None-Match equals the entity
\* tag of the latest day file (or, when that file has none, the manifest's)
\* is answered 304 without a body; with another or no If-None-Match it is
\* answered 200 with that entity tag as the ETag header.
C18_ConditionalLatest ==
    LatestServed
       => /\ Len(http.replies) = 1
          /\ IF http.in.ifNoneMatch # Undefined /\ http.in.ifNoneMatch = LatestTag
             THEN /\ http.replies[1].statusCode = 304
                  /\ http.replies[1].body = EmptyBody
             ELSE /\ http.replies[1].statusCode = 200
                  /\ http.replies[1].etag = LatestTag
                  /\ http.replies[1].body # EmptyBody

C18_Witness ==
    /\ LatestServed
    /\ http.outcomes[2].etag = Undefined
    /\ http.outcomes[1].etag = "etag-manifest-lending"
    /\ http.in.ifNoneMatch = "etag-manifest-lending"
    /\ http.replies[1].statusCode = 304

\* The request was a valid GET /v1/{dataset}/all in JSON format and every
\* accessor call succeeded.
AllServed ==
    /\ Replied /\ http.in.route = "all" /\ http.in.method = "GET"
    /\ http.in.format = "json"
    /\ http.in.page = Undefined \/ NumberOf(http.in.page) >= 1
    /\ http.in.per_page = Undefined
          \/ (NumberOf(http.in.per_page) >= 1 /\ NumberOf(http.in.per_page) <= 10000)
    /\ ~(http.in.from = "2025-09-30" /\ http.in.to = "2025-09-28")
    /\ \A i \in 1..Len(http.outcomes) : http.outcomes[i].kind = "ok"

\* The rows of the day files of the manifest's dates from `from` to `to`,
\* in manifest order, of protocol `protocol` when one is asked for; each day
\* file is the one the request's accessor call for that date returned.
RECURSIVE RowsServed(_, _)
RowsServed(dates, i) ==
    IF i > Len(dates) THEN <<>>
    ELSE LET date == dates[i]
             wanted == /\ http.in.from = Undefined \/ ~StringLess(date, http.in.from)
                       /\ http.in.to = Undefined \/ ~StringLess(http.in.to, date)
             n == CHOOSE j \in 1..Len(http.outcomes) :
                     http.outcomes[j].req = DailyRequest(http.in.dataset, date)
             rows == http.outcomes[n].value.items
         IN  (IF ~wanted THEN <<>>
              ELSE IF http.in.protocol = Undefined THEN rows
              ELSE SelectSeq(rows, LAMBDA row : row.protocol = http.in.protocol))
                \o RowsServed(dates, i + 1)

\* C19: the JSON reply of /all for page >= 1 and per_page in 1..10000 has
\* total = the number of rows over the in-range dates after the protocol
\* filter, data = the rows at positions (page-1)*per_page up to but
\* excluding page*per_page of those rows in manifest date order (none when
\* the page starts past the end), and page and perPage as requested,
\* 1 and 1000 when not given.
C19_Pagination ==
    AllServed
       => LET rows == RowsServed(http.outcomes[1].value.fields.dates, 1)
              page == IF http.in.page = Undefined THEN 1 ELSE NumberOf(http.in.page)
              perPage == IF http.in.per_page = Undefined THEN 1000
                         ELSE NumberOf(http.in.per_page)
              body == http.replies[1].body
              positions == {p \in 1..Len(rows) :
                              p > (page - 1) * perPage /\ p <= page * perPage}
          IN  /\ Len(http.replies) = 1
              /\ http.replies[1].statusCode = 200
              /\ http.replies[1].contentType = JsonType
              /\ body.kind = "page"
              /\ body.total = Len(rows)
              /\ body.page = page /\ body.perPage = perPage
              /\ Len(body.data) = Cardinality(positions)
              /\ \A i \in 1..Len(body.data) :
                    body.data[i] = rows[(page - 1) * perPage + i]

C19_Witness ==
    /\ AllServed
    /\ http.in.dataset = "lending" /\ http.in.protocol = Undefined
    /\ http.in.page = "2" /\ http.in.per_page = "2"
    /\ http.in.from = Undefined /\ http.in.to = Undefined
    /\ http.replies[1].body.total = 3
    /\ http.replies[1].body.data = << [protocol |-> "Alpha", poolId |-> "pool-2"] >>

\* The entry the store holds under key k, NoEntry if it holds none.
EntryAt(c, k) == IF k \in Keys(c) THEN c[IndexOf(c, k)].value ELSE NoEntry

\* C20: when fetchResource goes to the origin, its request carries
\* If-None-Match exactly when the store held an entry for the resource at
\* the lookup and that entry has an entity tag, and the header is that
\* entity tag; with no entry no validator is sent.
C20_ConditionalValidator ==
    [][\A c \in Calls, req \in Requests :
          (FetchStart(c, req) /\ calls'[c].pc = "awaiting")
             => LET entry == EntryAt(cache, KeyOf(req))
                IN  /\ entry = NoEntry => calls'[c].ifNoneMatch = Undefined
                    /\ entry # NoEntry
                          => calls'[c].ifNoneMatch = entry.etag]_vars

C20_Witness ==
    \E c \in Calls :
        /\ calls[c].pc = "awaiting"
        /\ calls[c].cached # NoEntry
        /\ calls[c].ifNoneMatch = "etag-1"

\* The store holds under KeyOf(req) an entry younger than its ttl.
HoldsFresh(req) ==
    /\ KeyOf(req) \in Keys(cache)
    /\ cache[IndexOf(cache, KeyOf(req))].age < cache[IndexOf(cache, KeyOf(req))].ttl

\* C21: a fetchResource call issues no origin request when it finds a fresh
\* entry and exactly one otherwise: a call that goes to the origin has one
\* request in flight, and whatever comes of that request (any status, or no
\* response) the call returns or rejects without issuing another.
C21_NoRetries ==
    /\ [][\A c \in Calls, req \in Requests :
            FetchStart(c, req)
               => IF HoldsFresh(req)
                  THEN /\ calls'[c].pc = "idle"
                       /\ result'.kind = "ok" /\ result'.requests = 0
                  ELSE calls'[c].pc = "awaiting" /\ result'.kind = "none"]_vars
    /\ [][\A c \in Calls :
            (calls[c].pc = "awaiting" /\ calls'[c] # calls[c])
               => /\ calls'[c].pc = "idle"
                  /\ result'.kind # "none" /\ result'.call = c
                  /\ result'.requests = 1]_vars

C21_Witness ==
    /\ result.kind = "Error" /\ result.cached # NoEntry
    /\ result.requests = 1 /\ result.upstream = NoStatus

\* C22: a resource without an entry gets one only from a 2xx response: when
\* a call that found no entry at its lookup completes, an entry appears under
\* its key, or the call returns a payload, only if the status was 2xx.
C22_EntriesOnlyFrom2xx ==
    [][\A c \in Calls :
          (calls[c].pc = "awaiting" /\ calls[c].cached = NoEntry
             /\ calls'[c].pc = "idle"
             /\ ~(result'.upstream >= 200 /\ result'.upstream <= 299))
             => /\ KeyOf(calls[c].req) \in Keys(cache')
                     => KeyOf(calls[c].req) \in Keys(cache)
                /\ result'.kind # "ok"]_vars

\* C23: when a call serves a stale entry because the origin answered an
\* error status S, the store afterwards holds that entry under the key with
\* status S and the same payload and validators.
C23_StatusUpdatedOnStaleServe ==
    [][\A c \in Calls :
          (calls[c].pc = "awaiting" /\ calls'[c].pc = "idle"
             /\ result'.kind = "ok" /\ result'.metrics.servedStale)
             => EntryAt(cache', KeyOf(calls[c].req))
                  = [calls[c].cached EXCEPT !.statusCode = result'.upstream]]_vars

\* The resources of KeyRequests and day files under further date strings
\* made of the separators and words the keys contain.
KeyIdentities ==
    KeyRequests
      \cup [op : {"getDailyDataset"}, dataset : {"lending", "borrowing"},
            date : {":", "lending", "manifest", "lending:2025-09-30",
                    "2025-09-30:data/lending/2025-09-30"}]

\* C24: the cache keys of any two distinct resources the accessors can
\* request, (manifest, dataset) and (daily, dataset, date), differ; the store
\* holds at most one entry per key, and the entry under a resource's key was
\* fetched for that resource, as is every payload a call returns.
C24_KeyInjective ==
    /\ Cardinality({KeyOf(r) : r \in KeyIdentities}) = Cardinality(KeyIdentities)
    /\ \A i, j \in 1..Len(cache) : i # j => cache[i].key # cache[j].key
    /\ \A r \in KeyRequests :
          KeyOf(r) \in Keys(cache)
             => cache[IndexOf(cache, KeyOf(r))].value.body = IdentityText(r)
    /\ result.kind = "ok" => result.buffer = IdentityText(result.req)

C24_Witness ==
    /\ Len(cache) = 2
    /\ cache[1].key = KeyOf(ManifestRequest("lending"))
    /\ cache[2].key = KeyOf(DailyRequest("lending", "../../meta/lending_manifest"))
    /\ result.kind = "ok" /\ result.requests = 0
    /\ result.req = DailyRequest("lending", "../../meta/lending_manifest")

\* Caller c takes a step of a fetchResource call for request a: the lookup,
\* or the continuation after the await.
FetchStepOf(c, a) ==
    \/ FetchStart(c, a)
    \/ calls[c].pc = "awaiting" /\ calls[c].req = a /\ calls'[c].pc = "idle"

\* C25: under any interleaving of two callers' calls, a step of a fetch for
\* resource a leaves the entry of every other resource b as it was (payload,
\* validators, status, age and ttl), or removes it when the step inserts
\* a's entry into a full store.
C25_OtherKeysIsolated ==
    [][\A c \in Callers, a \in Requests :
          FetchStepOf(c, a)
             => \A b \in Requests \ {a} :
                   KeyOf(b) \in Keys(cache)
                      => \/ /\ KeyOf(b) \in Keys(cache')
                            /\ cache'[IndexOf(cache', KeyOf(b))]
                                 = cache[IndexOf(cache, KeyOf(b))]
                         \/ /\ KeyOf(b) \notin Keys(cache')
                            /\ Len(cache) >= max
                            /\ KeyOf(a) \notin Keys(cache)
                            /\ KeyOf(a) \in Keys(cache')]_vars

\* While one caller's call is suspended, the other's call has stored its
\* response in a full store, which evicted the entry of a third resource.
C25_Witness ==
    \E c \in Callers, b \in Requests :
        /\ calls[c].pc = "awaiting"
        /\ result.kind = "ok" /\ result.call # c /\ result.requests = 1
        /\ Len(cache) = 2
        /\ b # result.req /\ b # calls[c].req
        /\ hist[b] # NoHist /\ hist[b] # Expired /\ ~hist[b].intact

\* C27: when two calls for the same resource overlap, a call resumed with
\* 304 does not put the payload it read at its lookup back over a different
\* payload that the other call has stored under the key in the meantime.
C27_NoPayloadRegression ==
    [][\A c \in Callers :
          (/\ calls[c].pc = "awaiting" /\ calls'[c].pc = "idle"
           /\ calls[c].cached # NoEntry
           /\ result'.upstream = 304
           /\ KeyOf(calls[c].req) \in Keys(cache)
           /\ EntryAt(cache, KeyOf(calls[c].req)).body # calls[c].cached.body)
             => EntryAt(cache', KeyOf(calls[c].req)).body # calls[c].cached.body]_vars

\* C28: when invalidateCache() ran while a call was suspended on its origin
\* request, the call's completion with 304 leaves under its key no entry
\* made from what the call read from the store before the clear.
C28_ClearWinsOverInFlight ==
    [][\A c \in Calls :
          (/\ calls[c].pc = "awaiting" /\ calls'[c].pc = "idle"
           /\ calls[c].cached # NoEntry /\ calls[c].ifNoneMatch # Undefined
           /\ calls[c].prior # NoHist /\ hist[calls[c].req] = NoHist
           /\ result'.upstream = 304)
             => KeyOf(calls[c].req) \notin Keys(cache')]_vars

\* The JSON value has the shape its accessor declares: a manifest is an
\* object with latest, dates, updated_at and schema_version; daily data is an
\* array.
HasShape(req, value) ==
    IF req.op = "getManifest"
    THEN /\ value.type = "object"
         /\ {"latest", "dates", "updated_at", "schema_version"} \subseteq DOMAIN value.fields
    ELSE value.type = "array"

\* C26: when fetchResource returns bytes that are valid JSON of another
\* shape than the accessor's, the accessor call fails with the parse-failure
\* error.
C26_ShapeValidated ==
    (/\ result.kind = "ok"
     /\ JSONparse(result.buffer).ok
     /\ ~HasShape(result.req, JSONparse(result.buffer).value))
       => Accessor(result).kind = "Error"

\* C29: in every successful fetchResource result, servedStale implies
\* cacheHit and upstreamStatus >= 400; cacheHit=false implies not
\* servedStale, that this call made an origin request whose status is the
\* one reported, and that the payload returned is the body of the response
\* the call received; and source is the source tag of the call.
C29_ProvenanceConsistent ==
    /\ [](result.kind = "ok"
           => /\ result.metrics.servedStale
                   => result.metrics.cacheHit /\ result.metrics.upstreamStatus >= 400
              /\ ~result.metrics.cacheHit
                   => /\ ~result.metrics.servedStale
                      /\ result.requests = 1
                      /\ result.upstream = result.metrics.upstreamStatus
              /\ result.metrics.source
                   = IF result.req.op = "getManifest"
                     THEN "manifest:" \o result.req.dataset
                     ELSE result.req.dataset \o ":" \o result.req.date)
    /\ [][\A c \in Calls, response \in Responses :
            (Respond(c, response) /\ result'.kind = "ok"
               /\ ~result'.metrics.cacheHit)
               => result'.buffer = response.body]_vars

C29_Witness ==
    /\ result.kind = "ok"
    /\ result.metrics.servedStale /\ result.metrics.cacheHit
    /\ result.metrics.upstreamStatus = 502
    /\ result.metrics.source = "lending:2025-09-30"

\* h records a 2xx fetch less than the class TTL ago whose body is not JSON.
WithinUnparsable(h) == Within2xx(h) /\ h.buffer = UnparsableText

\* The accessor call behind result r made no origin request and failed with
\* the parse failure.
FailsToParseUnfetched(r) ==
    /\ r.kind = "ok" /\ r.requests = 0 /\ r.buffer = UnparsableText
    /\ Accessor(r).kind = "Error"
    /\ Accessor(r).message = "Failed to parse JSON from " \o FetchOptions(r.req).path

\* A 2xx body that is not JSON is in the store when the accessor call that
\* fetched it fails.
StoredUnparsed ==
    (result.kind = "ok" /\ result.requests = 1 /\ Is2xx(result.upstream)
       /\ result.buffer = UnparsableText)
       => /\ KeyOf(result.req) \in Keys(cache)
          /\ EntryAt(cache, KeyOf(result.req)).body = UnparsableText
          /\ Accessor(result).kind = "Error"

StaleServed == result.kind = "ok" /\ result.metrics.servedStale

\* After a stale serve the entry, where the store still holds it, is not
\* fresh, and a call for the resource that comes next goes to the origin; a
\* call that receives a 2xx response returns that response's body with
\* cacheHit=false and servedStale=false.
StaleServeThenRefetch ==
    /\ [](StaleServed => ~HoldsFresh(result.req))
    /\ [][\A c \in Calls, req \in Requests :
            (StaleServed /\ result.req = req /\ FetchStart(c, req))
               => calls'[c].pc = "awaiting"]_vars
    /\ [][\A c \in Calls, response \in Responses :
            (Respond(c, response) /\ Is2xx(response.statusCode))
               => /\ result'.kind = "ok"
                  /\ result'.buffer = response.body
                  /\ ~result'.metrics.cacheHit /\ ~result'.metrics.servedStale]_vars

AllRoute == http.pc # "idle" /\ http.in.route = "all" /\ http.in.method = "GET"

\* The dates of the manifest the request obtained that lie from `from` to
\* `to`, in manifest order.
DatesWanted ==
    SelectSeq(http.outcomes[1].value.fields.dates,
              LAMBDA date :
                 /\ http.in.from = Undefined \/ ~StringLess(date, http.in.from)
                 /\ http.in.to = Undefined \/ ~StringLess(http.in.to, date))

\* The rows the accessor calls from the i-th on returned, of the protocol
\* asked for, in the order of the calls.
RECURSIVE RowsFrom(_)
RowsFrom(i) ==
    IF i > Len(http.outcomes) THEN <<>>
    ELSE (IF http.in.protocol = Undefined THEN http.outcomes[i].value.items
          ELSE SelectSeq(http.outcomes[i].value.items,
                         LAMBDA row : row.protocol = http.in.protocol))
           \o RowsFrom(i + 1)

\* C32: handleAll calls getManifest first and then getDailyDataset for the
\* in-range dates in manifest order, each after the one before has returned,
\* and sends nothing before it is done; the first call that fails is the
\* last, and the request is answered with exactly one error reply without
\* rows; when every call succeeds the reply carries the rows of the dates in
\* manifest order.
C32_AllOrNothing ==
    AllRoute
       => /\ Len(http.fetches) - Len(http.outcomes) \in {0, 1}
          /\ Len(http.fetches) >= 1
                => http.fetches[1] = ManifestRequest(http.in.dataset)
          /\ Len(http.fetches) >= 2
                => /\ http.outcomes[1].kind = "ok"
                   /\ Len(http.fetches) <= 1 + Len(DatesWanted)
                   /\ \A i \in 2..Len(http.fetches) :
                         http.fetches[i]
                           = DailyRequest(http.in.dataset, DatesWanted[i - 1])
          /\ http.pc = "call" => http.replies = <<>>
          /\ Replied => Len(http.replies) = 1
          /\ \A i \in 1..Len(http.outcomes) :
                http.outcomes[i].kind # "ok"
                   => /\ i = Len(http.outcomes) /\ i = Len(http.fetches)
                      /\ Replied
                      /\ http.replies[1].statusCode >= 400
                      /\ http.replies[1].body.kind = "error"
          /\ (/\ Replied /\ Len(http.outcomes) >= 2
              /\ \A i \in 1..Len(http.outcomes) : http.outcomes[i].kind = "ok")
                => /\ Len(http.outcomes) = 1 + Len(DatesWanted)
                   /\ http.replies[1].statusCode = 200
                   /\ http.replies[1].body.kind = "ndjson"
                   /\ http.replies[1].body.lines = RowsFrom(2)

\* The day file of the second date failed after the first date's rows had
\* been gathered.
C32_Witness ==
    /\ AllRoute /\ Replied
    /\ Len(http.fetches) = 3 /\ Len(http.outcomes) = 3
    /\ http.outcomes[2].kind = "ok"
    /\ http.outcomes[3].kind = "UpstreamUnavailableError"
    /\ http.replies[1].body.kind = "error"

=============================================================================
